---- MODULE Spec2Model ----
(***************************************************************************)
(* Model of wifi_config.ino: an ESP32 firmware that joins a WiFi network  *)
(* with credentials kept in NVS, or opens an access point with a captive  *)
(* portal to receive them.                                                 *)
(*                                                                         *)
(* Time is the millis() counter, in milliseconds.  Code runs in zero time  *)
(* except for its delay() calls.  Strings are sequences of characters.    *)
(***************************************************************************)
EXTENDS Integers, Sequences, FiniteSets, TLC

\* ------------------------------------------------------------------ constants
CONNECT_TIMEOUT_MS == 15000
RECONNECT_INTERVAL_MS == 15000

\* millis() is an unsigned long and wraps.  TLC's integers are 32-bit signed,
\* so the model's counter wraps at 2^30 instead of 2^32: sums of two counter
\* values stay representable and the modular arithmetic is the same.
Wrap32 == 2^30

\* ------------------------------------------------------------------ bounds
\* No idle time passes once millis() exceeds MaxMillis, and no request is
\* taken once it exceeds MaxRequestMillis.
MaxMillis == 31000
MaxRequestMillis == 16000

\* On a store whose writes may fail, a fault sets in within this time of a
\* boot.
MaxFaultMillis == 1000

\* Clients the TCP stack keeps waiting for server.handleClient().
MaxPending == 2

\* A device that stays connected for weeks is looked at again this long
\* before millis() wraps.
WrapLead == 6000

\* Idle time between two loop() iterations that have work to do.  With the
\* 200 ms the reconnection itself takes, 14800 makes the interval elapse
\* exactly.
TickSteps == {5000, 14800}

\* Delay, from WiFi.begin, after which the network accepts the join; Never
\* stands for a network that does not accept it.
Never == 0 - 1
JoinDelays == {100, 14900, 15100}
JoinOutcomes == JoinDelays \cup {Never}

\* Characters and the strings a client may send.
Space == " "
SsidInputs == {<<>>, <<Space>>, <<"h">>, <<Space, "h", Space>>}
PassInputs == {<<>>, <<"p", Space>>}
\* What NVS holds for a key that was never written or was cleared, and what
\* a request holds for a field it does not carry.
Absent == <<"(absent)">>
NoArg == <<"(no arg)">>

\* ------------------------------------------------------------------ state
VARIABLES
  pc,                    \* "boot": setup() has not run; "run": loop() is running
  now,                   \* millis()
  mode,                  \* WiFi.getMode(): subset of {"STA", "AP"}
  link,                  \* WiFi.status() == WL_CONNECTED
  ap,                    \* the soft access point is up
  join,                  \* ms until the pending join is accepted, or Never
  dns,                   \* dnsServer is started
  listening,             \* server.begin() is in effect
  routes,                \* route -> number of server.on registrations
  savedSSID, savedPASS, haveSavedCredentials,
  lastReconnectAttempt, lastConnectTryTime,
  nvsSSID, nvsPASS,      \* NVS: the stored strings, or Absent
  nvsOk,                 \* the NVS medium accepts the next write or erase
  bootCause,             \* "power" or "reset": what led to the boot
  out,                   \* effects of the last step, in program order
  lastWait,              \* the bounded wait of the last step, if any
  loopJoin,              \* the loop's join request of the last step, if any
  submitted,             \* identity and secret the last step's handler was sent
  thread,                \* where the loop task is, and the clients it keeps waiting
  sinceFail,             \* ms since the last failed bounded wait with no join since
  sinceLoop              \* ms since the loop's last join request

vars == <<pc, now, mode, link, ap, join, dns, listening, routes, savedSSID,
          savedPASS, haveSavedCredentials, lastReconnectAttempt,
          lastConnectTryTime, nvsSSID, nvsPASS, nvsOk, bootCause, out,
          lastWait, loopJoin, submitted, thread, sinceFail, sinceLoop>>

Routes == {"/", "/wifi", "/api/wifi", "/api/status", "/reset", "/api/reset"}

NoWait == [by |-> "none", d |-> Never, dur |-> 0, ok |-> FALSE, wrapped |-> FALSE]
NoLoopJoin == [gap |-> -1, afterFail |-> -1, across |-> FALSE]
NoSubmit == [ssid |-> NoArg, pass |-> NoArg]
\* No bounded wait is in progress.
NoPoll == [who |-> "none", startAttempt |-> 0, ssid |-> <<>>, d |-> Never]
\* The loop task about to call server.handleClient(), no client waiting.
AtHandleClient ==
  [at |-> "handleClient", pending |-> <<>>, poll |-> NoPoll, began |-> "none"]

\* The timers sinceFail and sinceLoop stop counting here.
TimerCap == RECONNECT_INTERVAL_MS + 1000
\* What a timer reads once the device has idled for weeks: close to a full
\* period of millis(), or more.
Aged == TimerCap + 1

\* ------------------------------------------------------------------ helpers
Add32(a, b) == (a + b) % Wrap32
Sub32(a, b) == (a - b + Wrap32) % Wrap32

IsSpace(c) == c = Space

RECURSIVE TrimLeft(_)
TrimLeft(s) == IF s # <<>> /\ IsSpace(Head(s)) THEN TrimLeft(Tail(s)) ELSE s

RECURSIVE TrimRight(_)
TrimRight(s) ==
  IF s # <<>> /\ IsSpace(s[Len(s)]) THEN TrimRight(SubSeq(s, 1, Len(s) - 1))
  ELSE s

\* A trim that leaves the leading whitespace in place.
trim_RightOnly(s) == TrimRight(s)

\* String::trim()
trim(s) == TrimLeft(TrimRight(s))

Bump(t, dt) ==
  IF t < 0 \/ t = Aged THEN t ELSE IF t + dt > TimerCap THEN TimerCap ELSE t + dt

\* The machine state as one record, threaded through the code of a handler.
Cur ==
  [pc |-> pc, now |-> now, mode |-> mode, link |-> link, ap |-> ap,
   join |-> join, dns |-> dns, listening |-> listening, routes |-> routes,
   savedSSID |-> savedSSID, savedPASS |-> savedPASS,
   haveSavedCredentials |-> haveSavedCredentials,
   lastReconnectAttempt |-> lastReconnectAttempt,
   lastConnectTryTime |-> lastConnectTryTime,
   nvsSSID |-> nvsSSID, nvsPASS |-> nvsPASS, nvsOk |-> nvsOk,
   bootCause |-> bootCause,
   out |-> <<>>, lastWait |-> NoWait, loopJoin |-> NoLoopJoin,
   submitted |-> NoSubmit, thread |-> thread,
   sinceFail |-> sinceFail, sinceLoop |-> sinceLoop]

Commit(S) ==
  /\ pc' = S.pc /\ now' = S.now /\ mode' = S.mode /\ link' = S.link
  /\ ap' = S.ap /\ join' = S.join /\ dns' = S.dns
  /\ listening' = S.listening /\ routes' = S.routes
  /\ savedSSID' = S.savedSSID /\ savedPASS' = S.savedPASS
  /\ haveSavedCredentials' = S.haveSavedCredentials
  /\ lastReconnectAttempt' = S.lastReconnectAttempt
  /\ lastConnectTryTime' = S.lastConnectTryTime
  /\ nvsSSID' = S.nvsSSID /\ nvsPASS' = S.nvsPASS /\ nvsOk' = S.nvsOk
  /\ bootCause' = S.bootCause /\ out' = S.out /\ lastWait' = S.lastWait
  /\ loopJoin' = S.loopJoin /\ submitted' = S.submitted
  /\ thread' = S.thread
  /\ sinceFail' = S.sinceFail
  /\ sinceLoop' = S.sinceLoop

Emit(S, e) == [S EXCEPT !.out = Append(@, e)]

\* delay(dt), and any other passing of dt ms: the clock advances and a
\* pending join counts down; when it is due the link comes up.
JoinDue(S, dt) == S.join # Never /\ S.join <= dt

Delay(S, dt) ==
  LET due == JoinDue(S, dt)
  IN [S EXCEPT !.now = Add32(@, dt),
               !.link = IF due THEN TRUE ELSE @,
               !.join = IF S.join = Never THEN Never
                        ELSE IF due THEN Never ELSE @ - dt,
               !.sinceFail = Bump(@, dt),
               !.sinceLoop = Bump(@, dt)]

\* ------------------------------------------------------------------ radio
\* WiFi.mode(m)
WiFiMode(S, m) ==
  [S EXCEPT !.mode = m,
            !.link = IF "STA" \in m THEN @ ELSE FALSE,
            !.join = IF "STA" \in m THEN @ ELSE Never,
            !.ap = IF "AP" \in m THEN @ ELSE FALSE]

\* WiFi.disconnect(wifioff)
WiFiDisconnect(S, wifioff) ==
  Emit([S EXCEPT !.link = FALSE, !.join = Never,
                 !.mode = IF wifioff THEN @ \ {"STA"} ELSE @],
       "disconnect")

\* WiFi.begin(ssid, pass) by who; d is the network's answer.  An empty
\* ssid is refused by the library: the call returns without a join.
WiFiBegin(S, ssid, d) ==
  LET T == Emit([S EXCEPT !.sinceFail = -1], "begin")
  IN IF ssid = <<>> THEN T
     ELSE [T EXCEPT !.mode = @ \cup {"STA"}, !.link = FALSE, !.join = d]

\* What the network answers to WiFi.begin(ssid, ...): nothing when the
\* library refused the call.
Answer(ssid, d) == IF ssid = <<>> THEN Never ELSE d

\* WiFi.softAPConfig + WiFi.softAP
WiFiSoftAP(S) ==
  Emit([S EXCEPT !.mode = @ \cup {"AP"}, !.ap = TRUE], "softAP")

\* WiFi.softAPdisconnect(true)
WiFiSoftAPdisconnect(S) ==
  Emit([S EXCEPT !.mode = @ \ {"AP"}, !.ap = FALSE], "softAPdisconnect")

\* ------------------------------------------------------------------ server
\* server.on(route, ...)
ServerOn(S, r) == [S EXCEPT !.routes[r] = @ + 1]

ServerBegin(S) == Emit([S EXCEPT !.listening = TRUE], "serverBegin")

ServerStop(S) == Emit([S EXCEPT !.listening = FALSE], "serverStop")

\* ------------------------------------------------------------------ store
\* prefs.getString(key, "")
GetString(v) == IF v = Absent THEN <<>> ELSE v

loadCredentials(S) ==
  LET ssid == GetString(S.nvsSSID)
  IN Emit([S EXCEPT !.savedSSID = ssid,
                    !.savedPASS = GetString(S.nvsPASS),
                    !.haveSavedCredentials = Len(ssid) > 0],
          "load")

\* Mutant: the credentials are kept in memory and not written to NVS.
saveCredentials_CacheOnly(S, ssid, pass) ==
  Emit([S EXCEPT !.savedSSID = ssid, !.savedPASS = pass,
                 !.haveSavedCredentials = TRUE],
       "putString")

\* prefs.putString returns 0 and stores nothing when the medium rejects the
\* write; saveCredentials does not look at what it returns.  A rejection is
\* transient: the medium accepts the operation after the rejected one.
saveCredentials(S, ssid, pass) ==
  Emit([S EXCEPT !.nvsSSID = IF S.nvsOk THEN ssid ELSE @,
                 !.nvsPASS = IF S.nvsOk THEN pass ELSE @,
                 !.nvsOk = TRUE,
                 !.savedSSID = ssid, !.savedPASS = pass,
                 !.haveSavedCredentials = TRUE],
       IF S.nvsOk THEN "putString" ELSE "putString failed")

\* Mutant: the erase forgets the NVS namespace and resets only the copies in
\* RAM.
clearCredentials_RamOnly(S) ==
  Emit([S EXCEPT !.savedSSID = <<>>, !.savedPASS = <<>>,
                 !.haveSavedCredentials = FALSE],
       "clear")

clearCredentials(S) ==
  Emit([S EXCEPT !.nvsSSID = IF S.nvsOk THEN Absent ELSE @,
                 !.nvsPASS = IF S.nvsOk THEN Absent ELSE @,
                 !.nvsOk = TRUE,
                 !.savedSSID = <<>>, !.savedPASS = <<>>,
                 !.haveSavedCredentials = FALSE],
       "clear")

\* ------------------------------------------------------------------ portal
startAPPortal(S) ==
  LET S1 == WiFiSoftAP(WiFiMode(S, {"AP"}))
      S2 == Emit([Delay(S1, 200) EXCEPT !.dns = TRUE], "dnsStart")
      S3 == ServerOn(ServerOn(ServerOn(S2, "/"), "/wifi"), "/api/wifi")
      S4 == ServerOn(ServerOn(ServerOn(S3, "/api/status"), "/reset"),
                     "/api/reset")
  IN ServerBegin(S4)

stopAPPortal(S) ==
  WiFiSoftAPdisconnect(Emit([ServerStop(S) EXCEPT !.dns = FALSE], "dnsStop"))

\* ------------------------------------------------------------------ waits
\* while ((millis() - startAttempt) < CONNECT_TIMEOUT_MS) {
\*   if (WiFi.status() == WL_CONNECTED) { connected = true; break; }
\*   delay(200); }
\* entered in state S; el is the time spent in the loop so far.  The result
\* is the time spent in the loop and the value of connected.
RECURSIVE PollLoop(_, _, _)
PollLoop(S, startAttempt, el) ==
  IF Sub32(Add32(S.now, el), startAttempt) < CONNECT_TIMEOUT_MS
  THEN IF S.link \/ JoinDue(S, el) THEN [el |-> el, connected |-> TRUE]
       ELSE PollLoop(S, startAttempt, el + 200)
  ELSE [el |-> el, connected |-> FALSE]

\* What a step records about its bounded wait: who waited, the network's
\* answer d, the time from the join request to the end of the wait, and the
\* verdict the code acts on.
Waited(S, who, d, startAttempt, verdict) ==
  Emit([S EXCEPT !.lastWait = [by |-> who, d |-> d,
                               dur |-> Sub32(S.now, startAttempt),
                               ok |-> verdict,
                               wrapped |-> S.now < startAttempt],
                 !.sinceFail = IF verdict THEN -1 ELSE 0],
       IF verdict THEN "waitOk" ELSE "waitFail")

\* ------------------------------------------------------------------ setup
\* Mutant: setup() acts on the verdict of the polling loop instead of reading
\* WiFi.status() again after it.
setup_NoRecheck(S0, d) ==
  LET S1 == loadCredentials(Delay(S0, 100))
      S2 == WiFiBegin(WiFiMode(S1, {"STA"}), S1.savedSSID, d)
      S3 == [S2 EXCEPT !.lastConnectTryTime = S2.now]
      P  == PollLoop(S3, S3.now, 0)
      S4 == Waited(Delay(S3, P.el), "boot", Answer(S1.savedSSID, d), S3.now,
                   P.connected)
      up == ServerBegin(ServerOn(ServerOn(ServerOn(S4, "/api/status"),
                                          "/api/wifi"), "/api/reset"))
      down == startAPPortal(Delay(WiFiDisconnect(S4, TRUE), 500))
      S5 == IF S1.haveSavedCredentials
            THEN IF P.connected THEN up ELSE down
            ELSE startAPPortal(S1)
  IN [S5 EXCEPT !.pc = "run"]

setup(S0, d) ==
  LET S1 == loadCredentials(Delay(S0, 100))
      S2 == WiFiBegin(WiFiMode(S1, {"STA"}), S1.savedSSID, d)
      S3 == [S2 EXCEPT !.lastConnectTryTime = S2.now]
      W  == Delay(S3, PollLoop(S3, S3.now, 0).el)
      S4 == Waited(W, "boot", Answer(S1.savedSSID, d), S3.now, W.link)
      up == ServerBegin(ServerOn(ServerOn(ServerOn(S4, "/api/status"),
                                          "/api/wifi"), "/api/reset"))
      down == startAPPortal(Delay(WiFiDisconnect(S4, TRUE), 500))
      S5 == IF S1.haveSavedCredentials
            THEN IF W.link THEN up ELSE down
            ELSE startAPPortal(S1)
  IN [S5 EXCEPT !.pc = "run"]

\* ------------------------------------------------------------------ loop
\* The part of loop() after server.handleClient() and
\* dnsServer.processNextRequest(): the periodic reconnection.
\* Mutant: the interval test is >= instead of >.
ReconnectDue_AtInterval(S) ==
  /\ S.mode = {"AP", "STA"} \/ S.mode = {"STA"}
  /\ ~S.link /\ S.haveSavedCredentials
  /\ Sub32(S.now, S.lastReconnectAttempt) >= RECONNECT_INTERVAL_MS

\* Mutant: the loop compares millis() with a deadline instead of taking the
\* difference.
ReconnectDue_Deadline(S) ==
  /\ S.mode = {"AP", "STA"} \/ S.mode = {"STA"}
  /\ ~S.link /\ S.haveSavedCredentials
  /\ S.now > Add32(S.lastReconnectAttempt, RECONNECT_INTERVAL_MS)

\* Mutant: the loop does not look at the radio's mode.
ReconnectDue_AnyMode(S) ==
  /\ ~S.link /\ S.haveSavedCredentials
  /\ Sub32(S.now, S.lastReconnectAttempt) > RECONNECT_INTERVAL_MS

ReconnectDue(S) ==
  /\ S.mode = {"AP", "STA"} \/ S.mode = {"STA"}
  /\ ~S.link /\ S.haveSavedCredentials
  /\ Sub32(S.now, S.lastReconnectAttempt) > RECONNECT_INTERVAL_MS

reconnect(S, d) ==
  IF ReconnectDue(S)
  THEN LET S1 == Emit([S EXCEPT !.lastReconnectAttempt = S.now], "reconnect")
           S2 == Delay(WiFiDisconnect(S1, FALSE), 200)
           S3 == [S2 EXCEPT !.loopJoin =
                              [gap |-> S2.sinceLoop,
                               afterFail |-> S2.sinceFail,
                               across |-> S.lastReconnectAttempt
                                            + RECONNECT_INTERVAL_MS >= Wrap32],
                            !.sinceLoop = 0]
       IN WiFiBegin(S3, S3.savedSSID, d)
  ELSE S

\* ------------------------------------------------------------------ handlers
handleRoot(S) == Emit(S, "send200")

\* handleWifiSubmit up to its bounded wait, and after it.
wifiSubmitBegin(S, ssidArg, passArg, d) ==
  LET ssid == trim(ssidArg)
      pass == trim(passArg)
      S1 == stopAPPortal(saveCredentials(S, ssid, pass))
  IN WiFiBegin(WiFiMode(S1, {"STA"}), ssid, d)

wifiSubmitEnd(S3, connected) ==
  IF connected
  THEN ServerOn(ServerOn(ServerOn(Emit(S3, "send200"), "/api/status"),
                         "/api/wifi"), "/api/reset")
  ELSE Emit(startAPPortal(S3), "send200")

handleWifiSubmit(S, ssidArg, passArg, d) ==
  IF ssidArg = NoArg THEN Emit(S, "send400")
  ELSE
    LET ssid == trim(ssidArg)
        S2 == wifiSubmitBegin(S, ssidArg, passArg, d)
        P  == PollLoop(S2, S2.now, 0)
        S3 == Waited(Delay(S2, P.el), "wifi", Answer(ssid, d), S2.now, P.connected)
    IN wifiSubmitEnd(S3, P.connected)

\* String::replace("+", " ")
ReplacePlus(s) == [i \in 1..Len(s) |-> IF s[i] = "+" THEN Space ELSE s[i]]

\* The credentials handleApiWifi takes from a request: the JSON body first,
\* then the form arguments, then a scan of the raw body.
ApiParse(req) ==
  LET fromJson == req.json = "ok" /\ req.jsonSsid # NoArg
      fromForm == ~fromJson /\ req.formSsid # NoArg
      fromRaw  == ~fromJson /\ ~fromForm /\ req.rawSsid # NoArg
      jpass == IF req.json = "ok" /\ req.jsonPass # NoArg
               THEN req.jsonPass ELSE <<>>
  IN [bad |-> req.json = "bad",
      gotSSID |-> fromJson \/ fromForm \/ fromRaw,
      ssid |-> IF fromJson THEN req.jsonSsid
               ELSE IF fromForm THEN req.formSsid
               ELSE IF fromRaw THEN ReplacePlus(req.rawSsid) ELSE <<>>,
      pass |-> IF fromJson THEN jpass
               ELSE IF fromForm
                    THEN (IF req.formPass = NoArg THEN <<>> ELSE req.formPass)
               ELSE IF req.rawPass # NoArg THEN ReplacePlus(req.rawPass)
               ELSE jpass]

\* The identity a request to /api/wifi carries, NoArg when it carries none.
ApiIdentity(req) ==
  IF ApiParse(req).gotSSID /\ ~ApiParse(req).bad THEN ApiParse(req).ssid
  ELSE NoArg

\* handleApiWifi, for a request that carries an identity, up to its bounded
\* wait, and after it.
apiWifiBegin(S, req, d) ==
  LET ssid == trim(ApiParse(req).ssid)
      pass == trim(ApiParse(req).pass)
      S1 == saveCredentials(S, ssid, pass)
      S2 == Delay(WiFiDisconnect(WiFiMode(S1, {"STA"}), TRUE), 200)
  IN WiFiBegin(S2, ssid, d)

apiWifiEnd(S4, connected) ==
  Emit(S4, IF connected THEN "send200 connected" ELSE "send200 failed")

handleApiWifi(S, req, d) ==
  LET p == ApiParse(req)
  IN IF p.bad \/ ~p.gotSSID THEN Emit(S, "send400")
     ELSE
       LET ssid == trim(p.ssid)
           S3 == apiWifiBegin(S, req, d)
           P  == PollLoop(S3, S3.now, 0)
           S4 == Waited(Delay(S3, P.el), "api", Answer(ssid, d), S3.now, P.connected)
       IN apiWifiEnd(S4, P.connected)

handleStatus(S) ==
  Emit(S, IF S.link THEN "status connected"
          ELSE IF S.mode = {"AP"} THEN "status AP" ELSE "status STA")

\* ESP.restart(): the volatile state is lost, NVS is kept.
Restart(S, cause) ==
  [pc |-> "boot", now |-> 0, mode |-> {}, link |-> FALSE, ap |-> FALSE,
   join |-> Never, dns |-> FALSE, listening |-> FALSE,
   routes |-> [r \in Routes |-> 0],
   savedSSID |-> <<>>, savedPASS |-> <<>>, haveSavedCredentials |-> FALSE,
   lastReconnectAttempt |-> 0, lastConnectTryTime |-> 0,
   nvsSSID |-> S.nvsSSID, nvsPASS |-> S.nvsPASS, nvsOk |-> S.nvsOk,
   bootCause |-> cause,
   out |-> Append(S.out, "restart"), lastWait |-> NoWait,
   loopJoin |-> NoLoopJoin, submitted |-> S.submitted,
   thread |-> AtHandleClient,
   sinceFail |-> -1, sinceLoop |-> -1]

handleReset(S) ==
  Restart(Delay(Emit(clearCredentials(S), "send200"), 500), "reset")

handleApiReset(S) ==
  Restart(Delay(Emit(clearCredentials(S), "send200"), 300), "reset")

\* ------------------------------------------------------------------ requests
Form(s, p) ==
  [json |-> "none", jsonSsid |-> NoArg, jsonPass |-> NoArg,
   formSsid |-> s, formPass |-> p, rawSsid |-> NoArg, rawPass |-> NoArg]

Json(s, p) ==
  [json |-> "ok", jsonSsid |-> s, jsonPass |-> p,
   formSsid |-> NoArg, formPass |-> NoArg, rawSsid |-> NoArg, rawPass |-> NoArg]

Raw(s, p) ==
  [json |-> "none", jsonSsid |-> NoArg, jsonPass |-> NoArg,
   formSsid |-> NoArg, formPass |-> NoArg, rawSsid |-> s, rawPass |-> p]

BadJson == [Form(NoArg, NoArg) EXCEPT !.json = "bad"]

ApiRequests ==
  {Json(s, <<"p", Space>>) : s \in SsidInputs \cup {NoArg}}
    \cup {Form(<<"h">>, <<>>), Form(<<>>, NoArg), Raw(<<"h", "+">>, <<"p">>),
          BadJson}

\* The secret a request to /api/wifi carries.
ApiSecret(req) == IF ApiIdentity(req) = NoArg THEN NoArg ELSE ApiParse(req).pass

\* The request a step serves, as the first effects of the step: the route
\* and, for a submission, whether its identity is missing or empty; the
\* identity and secret are kept as the handler receives them.
Request(S, route, ssid, pass) ==
  LET T == Emit([S EXCEPT !.submitted = [ssid |-> ssid, pass |-> pass]], route)
  IN IF ssid = NoArg THEN Emit(T, "no identity")
     ELSE IF trim(ssid) = <<>> THEN Emit(T, "empty identity")
     ELSE Emit(T, "identity")

\* A client can reach the server over the access point or over the network
\* the device has joined.
Reachable(r) == listening /\ routes[r] > 0 /\ (ap \/ link)

\* ------------------------------------------------------------------ actions
\* The part of a run that is looked at: its first seconds and the seconds
\* before millis() wraps.
Within(max) == now <= max \/ now >= Wrap32 - WrapLead

Init ==
  /\ pc = "boot" /\ now = 0 /\ mode = {} /\ link = FALSE /\ ap = FALSE
  /\ join = Never /\ dns = FALSE /\ listening = FALSE
  /\ routes = [r \in Routes |-> 0]
  /\ savedSSID = <<>> /\ savedPASS = <<>> /\ haveSavedCredentials = FALSE
  /\ lastReconnectAttempt = 0 /\ lastConnectTryTime = 0
  /\ nvsSSID = Absent /\ nvsPASS = Absent /\ nvsOk = TRUE
  /\ bootCause = "power" /\ out = <<>> /\ lastWait = NoWait
  /\ loopJoin = NoLoopJoin /\ submitted = NoSubmit /\ thread = AtHandleClient
  /\ sinceFail = -1 /\ sinceLoop = -1

\* The outcomes of the join the loop issues, when it issues one.
LoopOutcomes(S) == IF S.pc = "run" /\ ReconnectDue(S) THEN JoinOutcomes ELSE {Never}

\* One iteration of loop() in which server.handleClient() ran handler H.
Serve(S) ==
  IF S.pc = "run"
  THEN \E d2 \in LoopOutcomes(S) : Commit(reconnect(S, d2))
  ELSE Commit(S)

Setup ==
  /\ pc = "boot"
  /\ \E d \in JoinOutcomes : Commit(setup(Cur, d))

Root ==
  /\ pc = "run" /\ Within(MaxRequestMillis) /\ Reachable("/")
  /\ Serve(handleRoot(Emit(Cur, "/")))

WifiSubmit ==
  /\ pc = "run" /\ Within(MaxRequestMillis) /\ Reachable("/wifi")
  /\ \E s \in SsidInputs \cup {NoArg}, p \in PassInputs, d \in JoinOutcomes :
        Serve(handleWifiSubmit(Request(Cur, "/wifi", s, p), s, p, d))

ApiWifi ==
  /\ pc = "run" /\ Within(MaxRequestMillis) /\ Reachable("/api/wifi")
  /\ \E req \in ApiRequests, d \in JoinOutcomes :
        Serve(handleApiWifi(Request(Cur, "/api/wifi", ApiIdentity(req),
                                    ApiSecret(req)), req, d))

Status ==
  /\ pc = "run" /\ Within(MaxRequestMillis) /\ Reachable("/api/status")
  /\ Serve(handleStatus(Emit(Cur, "/api/status")))

Reset ==
  /\ pc = "run" /\ Within(MaxRequestMillis) /\ Reachable("/reset")
  /\ Serve(handleReset(Emit(Cur, "/reset")))

ApiReset ==
  /\ pc = "run" /\ Within(MaxRequestMillis) /\ Reachable("/api/reset")
  /\ Serve(handleApiReset(Emit(Cur, "/api/reset")))

\* An iteration of loop() with no client to serve in which the
\* reconnection is due.
Loop ==
  /\ pc = "run" /\ ReconnectDue(Cur)
  /\ \E d \in JoinOutcomes : Commit(reconnect(Cur, d))

\* Time passes while loop() has nothing to do.
Tick ==
  /\ pc = "run" /\ Within(MaxMillis) /\ ~ReconnectDue(Cur)
  /\ \E dt \in TickSteps : Commit(Delay(Cur, dt))

\* The network drops the link.
LinkDrop ==
  /\ pc = "run" /\ link
  /\ Commit([Cur EXCEPT !.link = FALSE])

\* The device is switched off and on.
PowerCycle ==
  /\ pc = "run"
  /\ Commit([Restart(Cur, "power") EXCEPT !.out = <<>>])

Next ==
  \/ Setup \/ Root \/ WifiSubmit \/ ApiWifi \/ Status \/ Reset \/ ApiReset
  \/ Loop \/ Tick \/ LinkDrop \/ PowerCycle

Spec == Init /\ [][Next]_vars

\* The NVS medium will reject the next write or erase.
StoreFault ==
  /\ pc = "run" /\ nvsOk /\ now <= MaxFaultMillis
  /\ Commit([Cur EXCEPT !.nvsOk = FALSE])

NextFaulty == Next \/ StoreFault

\* The firmware on a store whose writes may fail.
SpecFaulty == Init /\ [][NextFaulty]_vars

\* A device that connected at boot stays connected, with nothing to do in
\* loop(), until shortly before millis() wraps.
Idle ==
  /\ pc = "run" /\ link /\ now <= MaxMillis
  /\ out # <<>> /\ out[1] = "load"
  /\ Commit([Delay(Cur, Wrap32 - WrapLead - now) EXCEPT
               !.sinceFail = IF @ < 0 THEN @ ELSE Aged,
               !.sinceLoop = IF @ < 0 THEN @ ELSE Aged])

NextWrap == Next \/ Idle

\* The firmware on a device that runs long enough for millis() to wrap.
SpecWrap == Init /\ [][NextWrap]_vars

\* ------------------------------------------------------------------ recovery
\* The firmware left to itself: no client sends a request, and the network
\* accepts every join the loop requests in less than RECONNECT_INTERVAL.
AcceptingDelays == {d \in JoinDelays : d < RECONNECT_INTERVAL_MS}

\* Idle time between two loop() iterations; 14801 is the loop finding the
\* reconnection due in the first millisecond after the interval.
LiveSteps == {5000, 14801}

\* The code reads millis() only in differences with lastReconnectAttempt
\* and with the local startAttempt, so the time origin can be moved to the
\* last reconnection stamp; differences beyond TimerCap are all alike.
Rebase(S) ==
  LET el == Sub32(S.now, S.lastReconnectAttempt)
  IN [S EXCEPT !.now = IF el > TimerCap THEN TimerCap ELSE el,
               !.lastReconnectAttempt = 0, !.lastConnectTryTime = 0]

\* A device that is switched on, with or without stored credentials.
InitLive ==
  /\ pc = "boot" /\ now = 0 /\ mode = {} /\ link = FALSE /\ ap = FALSE
  /\ join = Never /\ dns = FALSE /\ listening = FALSE
  /\ routes = [r \in Routes |-> 0]
  /\ savedSSID = <<>> /\ savedPASS = <<>> /\ haveSavedCredentials = FALSE
  /\ lastReconnectAttempt = 0 /\ lastConnectTryTime = 0
  /\ nvsSSID \in {Absent, <<"h">>} /\ nvsPASS \in {Absent, <<>>, <<"p">>}
  /\ nvsOk = TRUE
  /\ bootCause = "power" /\ out = <<>> /\ lastWait = NoWait
  /\ loopJoin = NoLoopJoin /\ submitted = NoSubmit /\ thread = AtHandleClient
  /\ sinceFail = -1 /\ sinceLoop = -1

SetupLive ==
  /\ pc = "boot"
  /\ \E d \in JoinOutcomes : Commit(Rebase(setup(Cur, d)))

LoopLive ==
  /\ pc = "run" /\ ReconnectDue(Cur)
  /\ \E d \in AcceptingDelays : Commit(Rebase(reconnect(Cur, d)))

TickLive ==
  /\ pc = "run" /\ ~ReconnectDue(Cur)
  /\ \E dt \in LiveSteps : Commit(Rebase(Delay(Cur, dt)))

NextLive == SetupLive \/ LoopLive \/ TickLive \/ LinkDrop \/ PowerCycle

\* loop() is called again and again, and time passes.
SpecLive ==
  InitLive /\ [][NextLive]_vars /\ WF_vars(LoopLive) /\ WF_vars(TickLive)

\* ------------------------------------------------------------------ loop task
\* loop() statement by statement: server.handleClient(), then
\* dnsServer.processNextRequest(), then the reconnection; a handler's bounded
\* wait one poll at a time.  Clients connect at any moment and wait until
\* server.handleClient() takes them.
ThreadRequests == {"/wifi", "/api/wifi", "/api/status", "/reset"}

\* Mutant: an asynchronous server, which runs a handler as soon as the
\* request arrives.
CanDispatch_Async(th) == th.at \in {"handleClient", "wait"}

\* Handlers run only inside server.handleClient(), called from loop().
CanDispatch(th) == th.at = "handleClient"

\* server.stop() closes the listening socket and, with it, the connections
\* not yet taken.
StillPending(S, q) == IF S.listening THEN q ELSE <<>>

Arrive ==
  /\ pc = "run" /\ now <= MaxRequestMillis
  /\ Len(thread.pending) < MaxPending
  /\ \E r \in ThreadRequests :
       /\ Reachable(r)
       /\ thread' = [thread EXCEPT !.pending = Append(@, r),
                                   !.began = "arrive"]
  /\ UNCHANGED <<pc, now, mode, link, ap, join, dns, listening, routes,
                 savedSSID, savedPASS, haveSavedCredentials,
                 lastReconnectAttempt, lastConnectTryTime, nvsSSID, nvsPASS,
                 nvsOk, bootCause, out, lastWait, loopJoin, submitted,
                 sinceFail, sinceLoop>>

\* The loop task moves on to position at, having begun b in this step.
Goes(S, at, b) ==
  [S EXCEPT !.thread = [@ EXCEPT !.at = at, !.began = b,
                                  !.pending = StillPending(S, @)]]

\* A handler enters its bounded wait.
Waits(S, who, ssid, d) ==
  [Goes(S, "wait", "handler") EXCEPT
     !.thread.poll = [who |-> who, startAttempt |-> S.now,
                      ssid |-> ssid, d |-> d]]

\* server.handleClient() with no client waiting.
HandleNone ==
  /\ pc = "run" /\ CanDispatch(thread) /\ thread.pending = <<>>
  /\ Commit(Goes(Cur, "dns", "none"))

\* server.handleClient() takes the client that has waited longest.
HandleClient ==
  /\ pc = "run" /\ CanDispatch(thread) /\ thread.pending # <<>>
  /\ LET r == Head(thread.pending)
         S == Emit([Cur EXCEPT !.thread.pending = Tail(@)], r)
     IN \/ r = "/wifi" /\ \E d \in JoinOutcomes :
             Commit(Waits(wifiSubmitBegin(S, <<"h">>, <<"p">>, d),
                          "wifi", <<"h">>, d))
        \/ r = "/api/wifi" /\ \E d \in JoinOutcomes :
             Commit(Waits(apiWifiBegin(S, Json(<<"h">>, <<"p">>), d),
                          "api", <<"h">>, d))
        \/ r = "/api/status" /\ Commit(Goes(handleStatus(S), "dns", "handler"))
        \/ r = "/reset" /\ Commit(handleReset(S))

\* One turn of the while loop of a bounded wait.
Poll ==
  /\ pc = "run" /\ thread.at = "wait"
  /\ LET w == thread.poll
         End(c) == Waited(Cur, w.who, Answer(w.ssid, w.d), w.startAttempt, c)
         Done(c) == IF w.who = "wifi" THEN wifiSubmitEnd(End(c), c)
                    ELSE apiWifiEnd(End(c), c)
         Leave(S) == [Goes(S, "dns", "poll") EXCEPT !.thread.poll = NoPoll]
     IN IF Sub32(now, w.startAttempt) < CONNECT_TIMEOUT_MS
        THEN IF link THEN Commit(Leave(Done(TRUE)))
             ELSE Commit(Goes(Delay(Cur, 200), "wait", "poll"))
        ELSE Commit(Leave(Done(FALSE)))

\* dnsServer.processNextRequest()
Dns ==
  /\ pc = "run" /\ thread.at = "dns"
  /\ Commit(Goes(Cur, "reconnect", "dns"))

\* The rest of loop(): the reconnection, when it is due.
Reconnect ==
  /\ pc = "run" /\ thread.at = "reconnect"
  /\ \E d \in LoopOutcomes(Cur) :
       Commit(Goes(reconnect(Cur, d), "handleClient",
                   IF ReconnectDue(Cur) THEN "reconnect" ELSE "none"))

\* Time passes between two iterations of loop().
Pause ==
  /\ pc = "run" /\ thread.at = "handleClient" /\ now <= MaxRequestMillis
  /\ Commit(Goes(Delay(Cur, 5000), "handleClient", "none"))

NextThread ==
  \/ Setup \/ Arrive \/ HandleNone \/ HandleClient \/ Poll \/ Dns
  \/ Reconnect \/ Pause

\* The firmware with the loop task's position and the waiting clients.
SpecThread == Init /\ [][NextThread]_vars

\* ------------------------------------------------------------------ roles
\* The portal role: access point up in AP-only mode, wildcard DNS started,
\* HTTP server listening with the portal's routes.
PortalActive ==
  /\ mode = {"AP"} /\ ap /\ dns /\ listening
  /\ routes["/"] > 0 /\ routes["/wifi"] > 0 /\ routes["/api/wifi"] > 0

\* Client mode with the link up.
Connected == "STA" \in mode /\ link

\* Client mode: Connecting, Connected or Reconnecting.
ClientMode == "STA" \in mode

\* ------------------------------------------------------------------ observation
Range(s) == {s[i] : i \in 1..Len(s)}

RECURSIVE Before(_, _)
Before(s, e) ==
  IF s = <<>> \/ Head(s) = e THEN <<>> ELSE <<Head(s)>> \o Before(Tail(s), e)

\* The effects of the handler the last step ran, without those of the
\* reconnection that followed it in the same iteration of loop().
HandlerOut == Before(out, "reconnect")

Did(e) == e \in Range(HandlerOut)

\* The last step was setup().
AfterSetup == pc = "run" /\ out # <<>> /\ out[1] = "load"

\* The last step served a credential submission.
Submitted == Did("/wifi") \/ Did("/api/wifi")

\* ------------------------------------------------------------------ claims

\* C1: a boot with no stored credential ends in PortalActive with no join
\* request issued, and GET /api/status then reports connected=false, mode AP;
\* a boot with a stored credential and a network that accepts the join within
\* CONNECT_TIMEOUT ends in Connected no later than CONNECT_TIMEOUT after the
\* join request.  (haveSavedCredentials is false while running exactly when
\* the boot found no credential and nothing was submitted since.)
C1_BootRole ==
  /\ (pc = "run" /\ ~haveSavedCredentials) =>
        /\ PortalActive /\ ~link /\ join = Never /\ ~Did("begin")
        /\ Did("/api/status") => Did("status AP")
  /\ (AfterSetup /\ lastWait.by = "boot" /\ lastWait.d # Never
        /\ lastWait.d <= CONNECT_TIMEOUT_MS) =>
        /\ Connected /\ mode = {"STA"} /\ lastWait.ok
        /\ lastWait.dur <= CONNECT_TIMEOUT_MS

\* A boot that found the credential stored by an earlier submission joined a
\* network that accepted late in the wait.
C1_Witness ==
  AfterSetup /\ lastWait.by = "boot" /\ lastWait.d = 14900 /\ Connected

\* C2: when the bounded wait of a submission fails, the role is PortalActive
\* when the handler finishes.
C2_FailedSubmitReturnsToPortal ==
  (Submitted /\ Did("identity") /\ Did("waitFail")) => PortalActive

\* C3: a submission with an empty identity is answered with 400, writes
\* nothing to the store and issues no join request.
C3_EmptyIdentityRejected ==
  Did("empty identity") =>
    Did("send400") /\ ~Did("putString") /\ ~Did("begin")

\* C4: once setup() has run the HTTP server is listening and /api/status is
\* routed.
C4_StatusApiAlwaysArmed ==
  pc = "run" => listening /\ routes["/api/status"] > 0

\* C5: a bounded wait against a network that never accepts ends no later than
\* CONNECT_TIMEOUT plus one polling interval after the join request, and a
\* join accepted during the wait is detected within one polling interval.
C5_BoundedAttempt ==
  lastWait.by # "none" =>
    /\ lastWait.d = Never =>
         ~lastWait.ok /\ lastWait.dur <= CONNECT_TIMEOUT_MS + 200
    /\ (lastWait.d # Never /\ lastWait.d <= lastWait.dur) =>
         lastWait.ok /\ lastWait.dur <= lastWait.d + 200

\* C6: two consecutive join requests of loop(), within one run of the
\* firmware, are more than RECONNECT_INTERVAL apart.
C6_ReconnectRateLimited ==
  loopJoin.gap # -1 => loopJoin.gap > RECONNECT_INTERVAL_MS

\* The loop has issued a join request after an earlier one of its own.
C6_Witness == loopJoin.gap # -1 /\ "reconnect" \in Range(out)

\* C7: a reset clears the store, then sends the 200 response, then restarts;
\* at the boot that follows the store is absent and setup() ends in
\* PortalActive.
C7_Reset ==
  /\ (pc = "boot" /\ bootCause = "reset") =>
        /\ out \in {<<"/reset", "clear", "send200", "restart">>,
                    <<"/api/reset", "clear", "send200", "restart">>}
        /\ nvsSSID = Absent /\ nvsPASS = Absent
  /\ (AfterSetup /\ bootCause = "reset") =>
        PortalActive /\ ~haveSavedCredentials /\ lastWait.by = "none"

\* The boot after a reset has completed.
C7_Witness == AfterSetup /\ bootCause = "reset" /\ PortalActive

\* C8: the credential record counts as present only if the stored identity is
\* not empty.
C8_AbsenceNormalized ==
  haveSavedCredentials => (savedSSID # <<>> /\ GetString(nvsSSID) # <<>>)

\* C9: in client mode the access point is down and the DNS responder is
\* stopped.
C9_PortalOnlyInPortalRole ==
  ClientMode => ~ap /\ ~dns

\* C10: the join request that follows a failed bounded wait, when the loop
\* issues it, comes no sooner than RECONNECT_INTERVAL after the failure.
C10_NoImmediateRetry ==
  loopJoin.afterFail # -1 => loopJoin.afterFail >= RECONNECT_INTERVAL_MS

\* C11: a step whose save failed leaves the credentials the device operates
\* on (savedSSID, savedPASS, haveSavedCredentials) as they were.
C11_FailedSaveConfined ==
  [][(Did("identity") /\ Did("putString failed"))' =>
       UNCHANGED <<savedSSID, savedPASS, haveSavedCredentials>>]_vars

\* t is s without its leading and trailing whitespace.
IsTrimOf(t, s) ==
  /\ Len(t) <= Len(s)
  /\ t # <<>> => ~IsSpace(t[1]) /\ ~IsSpace(t[Len(t)])
  /\ \E i \in 0..(Len(s) - Len(t)) :
        /\ SubSeq(s, i + 1, i + Len(t)) = t
        /\ \A k \in 1..Len(s) : (k <= i \/ k > i + Len(t)) => IsSpace(s[k])

\* The credentials a load returns.
Loaded(S) ==
  [ssid |-> loadCredentials(S).savedSSID, pass |-> loadCredentials(S).savedPASS]

\* C12: after a step that accepted a submission with an identity of 1 to 64
\* characters, a load returns the submitted identity and secret without
\* their leading and trailing whitespace; so does a second load after it and
\* the load of the next boot.
C12_RoundTrip ==
  (pc = "run" /\ Submitted /\ submitted.ssid # NoArg
     /\ Len(submitted.ssid) \in 1..64 /\ Len(submitted.pass) \in 0..64) =>
    /\ IsTrimOf(Loaded(Cur).ssid, submitted.ssid)
    /\ IsTrimOf(Loaded(Cur).pass, submitted.pass)
    /\ Loaded(loadCredentials(Cur)) = Loaded(Cur)
    /\ Loaded(Restart(Cur, "power")) = Loaded(Cur)

C12_Witness ==
  /\ pc = "run" /\ Did("/wifi") /\ Did("waitFail")
  /\ submitted = [ssid |-> <<Space, "h", Space>>, pass |-> <<"p", Space>>]
  /\ nvsSSID = <<"h">> /\ nvsPASS = <<"p">>

\* C13: in a step that starts the access point after a bounded wait that
\* failed, a WiFi.disconnect comes after the failed wait and before the access
\* point is started.
C13_DisconnectBeforePortal ==
  ~Did("empty identity") =>
    \A i \in 1..Len(out) : \A j \in 1..(i - 1) :
      (out[j] = "waitFail" /\ out[i] = "softAP") =>
        \E k \in (j + 1)..(i - 1) : out[k] = "disconnect"

\* C15: from the portal role no step issues a join request unless it serves
\* a submission, and the portal role is left only by a step that serves a
\* submission or by a restart.
C15_PortalTerminal ==
  [][(pc = "run" /\ PortalActive) =>
       /\ "begin" \in Range(out') => Submitted'
       /\ ~PortalActive' => (Submitted' \/ pc' = "boot")]_vars

\* The portal role with stored credentials, the link down and more than the
\* reconnection interval gone by, after the loop ran with no client to serve.
C15_Witness ==
  /\ pc = "run" /\ PortalActive /\ haveSavedCredentials /\ ~link
  /\ lastWait = NoWait /\ out = <<>>
  /\ Sub32(now, lastReconnectAttempt) > RECONNECT_INTERVAL_MS

\* C17: a step registers a route with the server only if the route has not
\* been registered since the boot.
C17_RoutesMountedOnce ==
  [][~Did("empty identity")' =>
       \A r \in Routes : routes'[r] > routes[r] => routes[r] = 0]_vars

\* C18: while loop() runs, between two steps, savedSSID and savedPASS are
\* the strings NVS holds, so the load of a boot would return them.
C18_CacheCoherent ==
  pc = "run" =>
    /\ savedSSID = GetString(nvsSSID) /\ savedPASS = GetString(nvsPASS)
    /\ Loaded(Restart(Cur, "power")) = [ssid |-> savedSSID, pass |-> savedPASS]

\* After a reset cleared the store, a submission stored credentials.
C18_Witness ==
  /\ pc = "run" /\ Did("/api/wifi") /\ Did("putString")
  /\ savedSSID = <<"h">> /\ savedPASS = <<"p">> /\ nvsSSID = <<"h">>
  /\ nvsPASS = <<"p">> /\ bootCause = "reset"

\* C19: around a wrap of millis() the elapsed-time checks give what they give
\* elsewhere.  When the interval after the previous reconnection spans the
\* wrap, the loop's next join request comes more than RECONNECT_INTERVAL
\* after the previous one, and the reconnection is due once more than the
\* interval has passed; a bounded wait that spans the wrap, against a network
\* that never accepts, ends between CONNECT_TIMEOUT and one polling interval
\* later.
C19_WrapSafe ==
  /\ (loopJoin.gap # -1 /\ loopJoin.across) =>
        loopJoin.gap > RECONNECT_INTERVAL_MS
  /\ (pc = "run" /\ ClientMode /\ ~link /\ haveSavedCredentials
        /\ lastReconnectAttempt + RECONNECT_INTERVAL_MS >= Wrap32
        /\ sinceLoop > RECONNECT_INTERVAL_MS /\ sinceLoop # Aged) =>
        ReconnectDue(Cur)
  /\ (lastWait.wrapped /\ lastWait.d = Never) =>
        /\ ~lastWait.ok
        /\ lastWait.dur >= CONNECT_TIMEOUT_MS
        /\ lastWait.dur <= CONNECT_TIMEOUT_MS + 200

\* The loop issued a join request before the wrap and the next one after it.
C19_Witness ==
  /\ loopJoin.across /\ loopJoin.gap \in 0..TimerCap
  /\ "reconnect" \in Range(out) /\ lastReconnectAttempt <= MaxMillis

\* C16: with no client request and a network that accepts each join in less
\* than RECONNECT_INTERVAL, a device in client mode with stored credentials
\* whose link is down is Connected again later on (or has been switched off
\* and on).
C16_BackgroundRecovery ==
  (pc = "run" /\ ClientMode /\ ~link /\ haveSavedCredentials)
    ~> (Connected \/ pc = "boot")

\* C14: while a handler is in its bounded wait, the next step of the loop
\* task begins no handler, no DNS servicing and no reconnection; the clients
\* that connect meanwhile wait.
C14_Serialized ==
  [][thread.at = "wait" =>
       thread'.began \notin {"handler", "dns", "reconnect"}]_vars

\* A second submission waits while the bounded wait of the first is under
\* way.
C14_Witness ==
  /\ thread.at = "wait" /\ thread.began = "poll"
  /\ thread.pending # <<>> /\ Head(thread.pending) = "/api/wifi"
  /\ Sub32(now, thread.poll.startAttempt) >= 200

====
